---- MODULE Spec2Model ----
(***************************************************************************)
(* The extract-urls command of the osint_url_extractor plugin              *)
(* (src/url_ext.py): open a file, read it as UTF-8 text, extract the       *)
(* matches of  https?://[^\s]+  with re.findall, and report them through   *)
(* the framework's logger.                                                 *)
(*                                                                         *)
(* A text is a sequence of one-character strings, so that the matcher      *)
(* works character by character as the regular expression does.            *)
(***************************************************************************)
EXTENDS Integers, Sequences, FiniteSets, TLC

VARIABLES
    \* ---- one invocation of extract_urls_command ----
    pc,          \* position in extract_urls_command
    filename,    \* the parameter 'filename'
    handles,     \* number of file handles opened by the command and not closed
    text,        \* the local 'text'
    urls,        \* the local 'urls'
    exc,         \* the exception in flight ("none" when there is none)
    steps,       \* the steps the current invocation has executed, in order
    result,      \* how the last invocation left the function
    invocations, \* number of invocations started
    sink,        \* the calls framework.logger.log has received, in order
    \* ---- the extraction, on its own ----
    xs,          \* the input text
    spans,       \* the <<first, last>> positions of the matches in xs
    out,         \* re.findall(pattern, xs)
    again,       \* re.findall(pattern, " ".join(out))
    xpc          \* position of the extraction run

cmdVars == <<pc, filename, handles, text, urls, exc, steps, result, invocations, sink>>
extVars == <<xs, spans, out, again, xpc>>
vars == <<pc, filename, handles, text, urls, exc, steps, result, invocations, sink,
          xs, spans, out, again, xpc>>

-----------------------------------------------------------------------------
(* Bounds *)

MaxPieces == 4
MaxInvocations == 2

-----------------------------------------------------------------------------
(* The pattern  https?://[^\s]+  *)

\* \s of a str pattern: the whitespace characters expressible here.
Whitespace == {" ", "\t", "\n", "\r", "\f"}

IsSpace(c) == c \in Whitespace

LitHttp == <<"h", "t", "t", "p">>
LitS == <<"s">>
LitSep == <<":", "/", "/">>

\* s has the literal lit at position i.
LitAt(s, i, lit) ==
    /\ i >= 1
    /\ i + Len(lit) - 1 <= Len(s)
    /\ SubSeq(s, i, i + Len(lit) - 1) = lit

\* Variant: [^\s)]+ , a run that also stops at a closing parenthesis.
RECURSIVE RunEndAtParen(_, _)
RunEndAtParen(s, j) ==
    IF j > Len(s) \/ IsSpace(s[j]) \/ s[j] = ")" THEN j - 1 ELSE RunEndAtParen(s, j + 1)

\* [^\s]+ is greedy: the last position of the run of non-whitespace that
\* starts at j (j - 1 when s[j] is whitespace or j is past the end).
RECURSIVE RunEnd(_, _)
RunEnd(s, j) ==
    IF j > Len(s) \/ IsSpace(s[j]) THEN j - 1 ELSE RunEnd(s, j + 1)

\* ://[^\s]+ at position k: the last position of the match, 0 for no match.
SepAndRun(s, k) ==
    IF LitAt(s, k, LitSep) /\ RunEnd(s, k + 3) >= k + 3
    THEN RunEnd(s, k + 3)
    ELSE 0

\* Variant: http://[^\s]+ , without the optional "s".
MatchEndNoS(s, i) ==
    IF ~LitAt(s, i, LitHttp) THEN 0 ELSE SepAndRun(s, i + 4)

\* Variant: (?<!\S)https?://[^\s]+ , a match only at a token boundary.
MatchEndAtBoundary(s, i) ==
    IF ~(i = 1 \/ (i >= 2 /\ i - 1 <= Len(s) /\ IsSpace(s[i - 1]))) THEN 0
    ELSE IF ~LitAt(s, i, LitHttp) THEN 0
    ELSE IF LitAt(s, i + 4, LitS) /\ SepAndRun(s, i + 5) > 0
         THEN SepAndRun(s, i + 5)
         ELSE SepAndRun(s, i + 4)

\* The whole pattern anchored at i: the last position of the match, 0 for
\* no match. s? is greedy and gives the "s" back when the rest fails.
MatchEnd(s, i) ==
    IF ~LitAt(s, i, LitHttp) THEN 0
    ELSE IF LitAt(s, i + 4, LitS) /\ SepAndRun(s, i + 5) > 0
         THEN SepAndRun(s, i + 5)
         ELSE SepAndRun(s, i + 4)

\* The scan of re.findall: try the pattern at pos; on a match record it and
\* resume after its last character, otherwise move one character on.
RECURSIVE Scan(_, _, _)
Scan(s, pos, acc) ==
    IF pos > Len(s) THEN acc
    ELSE LET e == MatchEnd(s, pos)
         IN  IF e > 0 THEN Scan(s, e + 1, Append(acc, <<pos, e>>))
                      ELSE Scan(s, pos + 1, acc)

FindSpans(s) == Scan(s, 1, <<>>)

\* Variant: https?://([^\s]+) , where findall returns the group only.
FindAllGroup(s) ==
    LET sp == FindSpans(s)
    IN  [k \in 1..Len(sp) |->
            SubSeq(s, IF LitAt(s, sp[k][1] + 4, LitS) THEN sp[k][1] + 8 ELSE sp[k][1] + 7,
                   sp[k][2])]

\* Variant: the matches with repetitions dropped, first occurrences kept.
FindAllDedup(s) ==
    LET sp == FindSpans(s)
        all == [k \in 1..Len(sp) |-> SubSeq(s, sp[k][1], sp[k][2])]
        first == {k \in 1..Len(sp) : \A j \in 1..(k - 1) : all[j] # all[k]}
        nth[n \in 1..Cardinality(first)] ==
            CHOOSE k \in first : Cardinality({j \in first : j < k}) = n - 1
    IN  [n \in 1..Cardinality(first) |-> all[nth[n]]]

\* re.findall(pattern, s): the matched substrings, one per match.
FindAll(s) ==
    LET sp == FindSpans(s)
    IN  [k \in 1..Len(sp) |-> SubSeq(s, sp[k][1], sp[k][2])]

-----------------------------------------------------------------------------
(* Input texts: concatenations of at most MaxPieces pieces *)

\* Both prefixes bare, a whole URL, a prefix cut short, a letter, a
\* punctuation mark and two kinds of whitespace.
Pieces ==
    { <<"h", "t", "t", "p", ":", "/", "/">>,
      <<"h", "t", "t", "p", "s", ":", "/", "/">>,
      <<"h", "t", "t", "p", ":", "/", "/", "a">>,
      <<"h", "t", "t", "p", ":", "/">>,
      <<"a">>, <<")">>, <<" ">>, <<"\n">> }

RECURSIVE TextsUpTo(_)
TextsUpTo(n) ==
    IF n = 0 THEN { <<>> }
    ELSE LET shorter == TextsUpTo(n - 1)
         IN  shorter \cup { t \o p : t \in shorter, p \in Pieces }

\* " ".join(us)
RECURSIVE JoinSpace(_)
JoinSpace(us) ==
    IF Len(us) = 0 THEN <<>>
    ELSE IF Len(us) = 1 THEN us[1]
    ELSE us[1] \o <<" ">> \o JoinSpace(Tail(us))

-----------------------------------------------------------------------------
(* The extraction on its own *)

XInit ==
    /\ xs \in TextsUpTo(MaxPieces)
    /\ spans = <<>>
    /\ out = <<>>
    /\ again = <<>>
    /\ xpc = "start"

Extract ==
    /\ xpc = "start"
    /\ spans' = FindSpans(xs)
    /\ out' = FindAll(xs)
    /\ xpc' = "extracted"
    /\ UNCHANGED <<xs, again>>

ExtractAgain ==
    /\ xpc = "extracted"
    /\ again' = FindAll(JoinSpace(out))
    /\ xpc' = "again"
    /\ UNCHANGED <<xs, spans, out>>

CmdIdle ==
    /\ pc = "idle"
    /\ filename = "none"
    /\ handles = 0
    /\ text = <<>>
    /\ urls = <<>>
    /\ exc = "none"
    /\ steps = <<>>
    /\ result = "none"
    /\ invocations = 0
    /\ sink = <<>>

InitExtract == XInit /\ CmdIdle

NextExtract ==
    \/ Extract /\ UNCHANGED cmdVars
    \/ ExtractAgain /\ UNCHANGED cmdVars

SpecExtract == InitExtract /\ [][NextExtract]_vars

-----------------------------------------------------------------------------
(* The command: extract_urls_command(framework, cmd_str, filename) *)

Paths == {"p1", "p2"}

PieceHttp == <<"h", "t", "t", "p", ":", "/", "/">>
UrlA == PieceHttp \o <<"a">>

\* Contents a file can hold: empty, no URL, a bare prefix, one URL, the same
\* URL twice, a URL glued into a longer token.
FileTexts ==
    { <<>>,
      <<"a">>,
      PieceHttp,
      UrlA,
      UrlA \o <<" ">> \o UrlA,
      <<"a">> \o UrlA \o <<")">> }

\* open() fails with an OSError; read() with an OSError or, for bytes that
\* are not UTF-8, a UnicodeDecodeError.
OpenErrors == {"FileNotFoundError", "PermissionError"}
ReadErrors == {"OSError", "UnicodeDecodeError"}

\* f"Extracted URLs from '{filename}': {urls}", LogType.INFO
ExtractedEvent(f, us) ==
    [level |-> "INFO", kind |-> "Extracted", path |-> f, urls |-> us, cause |-> "none"]

\* f"No URLs found in '{filename}'.", LogType.INFO
NoUrlsEvent(f) ==
    [level |-> "INFO", kind |-> "NoURLs", path |-> f, urls |-> <<>>, cause |-> "none"]

\* f"Error extracting URLs from '{filename}': {e}", LogType.ERROR
ErrorEvent(f, e) ==
    [level |-> "ERROR", kind |-> "Error", path |-> f, urls |-> <<>>, cause |-> e]

\* Variant: the emptiness test left out.
InfoEventNoTest(f, us) == ExtractedEvent(f, us)

\* if urls: ... else: ...
InfoEvent(f, us) ==
    IF us # <<>> THEN ExtractedEvent(f, us) ELSE NoUrlsEvent(f)

\* Variant: except OSError.
CatchesOSError(e) == e \in OpenErrors \cup {"OSError"}

\* except Exception: every exception of the model is an Exception.
Catches(e) == e \in OpenErrors \cup ReadErrors \cup {"LoggerError"}

\* One call of framework.logger.log, by invocation n; raised tells whether
\* the call returned or raised.
Call(n, ev, raised) == [inv |-> n, event |-> ev, raised |-> raised]

Invoke(p) ==
    /\ pc = "idle"
    /\ invocations < MaxInvocations
    /\ invocations' = invocations + 1
    /\ filename' = p
    /\ text' = <<>>
    /\ urls' = <<>>
    /\ exc' = "none"
    /\ steps' = <<>>
    /\ result' = "running"
    /\ pc' = "open"
    /\ UNCHANGED <<handles, sink>>

\* open(filename, "r", encoding="utf-8")
Open ==
    /\ pc = "open"
    /\ steps' = Append(steps, "open")
    /\ \/ /\ handles' = handles + 1
          /\ pc' = "read"
          /\ exc' = exc
       \/ /\ exc' \in OpenErrors
          /\ pc' = "except"
          /\ handles' = handles
    /\ UNCHANGED <<filename, text, urls, result, invocations, sink>>

\* text = f.read()
Read ==
    /\ pc = "read"
    /\ steps' = Append(steps, "read")
    /\ pc' = "exit"
    /\ \/ /\ text' \in FileTexts
          /\ exc' = exc
       \/ /\ exc' \in ReadErrors
          /\ text' = text
    /\ UNCHANGED <<filename, handles, urls, result, invocations, sink>>

\* Variant: the file closed on the success path only.
WithExitLeak ==
    /\ pc = "exit"
    /\ steps' = IF exc = "none" THEN Append(steps, "close") ELSE steps
    /\ handles' = IF exc = "none" THEN handles - 1 ELSE handles
    /\ pc' = IF exc = "none" THEN "findall" ELSE "except"
    /\ UNCHANGED <<filename, text, urls, exc, result, invocations, sink>>

\* The end of the with block: f.__exit__ closes the file, with or without an
\* exception in flight.
WithExit ==
    /\ pc = "exit"
    /\ steps' = Append(steps, "close")
    /\ handles' = handles - 1
    /\ pc' = IF exc = "none" THEN "findall" ELSE "except"
    /\ UNCHANGED <<filename, text, urls, exc, result, invocations, sink>>

\* urls = re.findall(pattern, text)
Findall ==
    /\ pc = "findall"
    /\ steps' = Append(steps, "findall")
    /\ urls' = FindAll(text)
    /\ pc' = "log"
    /\ UNCHANGED <<filename, handles, text, exc, result, invocations, sink>>

\* Variant: the else left out, so that a found list is followed by the
\* 'No URLs found' report.
LogInfoNoElse ==
    /\ pc = "log"
    /\ steps' = Append(steps, "log_info")
    /\ sink' = IF urls # <<>>
               THEN sink \o << Call(invocations, ExtractedEvent(filename, urls), FALSE),
                                Call(invocations, NoUrlsEvent(filename), FALSE) >>
               ELSE Append(sink, Call(invocations, NoUrlsEvent(filename), FALSE))
    /\ pc' = "return"
    /\ UNCHANGED <<filename, handles, text, urls, exc, result, invocations>>

\* framework.logger.log(message=..., log_type=LogType.INFO), returning.
LogInfo ==
    /\ pc = "log"
    /\ steps' = Append(steps, "log_info")
    /\ sink' = Append(sink, Call(invocations, InfoEvent(filename, urls), FALSE))
    /\ pc' = "return"
    /\ UNCHANGED <<filename, handles, text, urls, exc, result, invocations>>

\* The same call, raising: the exception is raised inside the try block.
LogInfoRaises ==
    /\ pc = "log"
    /\ steps' = Append(steps, "log_info")
    /\ sink' = Append(sink, Call(invocations, InfoEvent(filename, urls), TRUE))
    /\ exc' = "LoggerError"
    /\ pc' = "except"
    /\ UNCHANGED <<filename, handles, text, urls, result, invocations>>

\* except Exception as e: framework.logger.log(..., log_type=LogType.ERROR),
\* returning. An exception the clause does not catch leaves the function.
Except ==
    /\ pc = "except"
    /\ IF Catches(exc)
       THEN /\ steps' = Append(steps, "log_error")
            /\ sink' = Append(sink, Call(invocations, ErrorEvent(filename, exc), FALSE))
            /\ pc' = "return"
            /\ result' = result
       ELSE /\ steps' = steps
            /\ sink' = sink
            /\ pc' = "idle"
            /\ result' = "raised"
    /\ UNCHANGED <<filename, handles, text, urls, exc, invocations>>

\* The call in the except clause, raising: nothing catches it.
ExceptLogRaises ==
    /\ pc = "except"
    /\ Catches(exc)
    /\ steps' = Append(steps, "log_error")
    /\ sink' = Append(sink, Call(invocations, ErrorEvent(filename, exc), TRUE))
    /\ exc' = "LoggerError"
    /\ pc' = "idle"
    /\ result' = "raised"
    /\ UNCHANGED <<filename, handles, text, urls, invocations>>

\* The function falls off its end and returns None.
Return ==
    /\ pc = "return"
    /\ pc' = "idle"
    /\ result' = "returned"
    /\ UNCHANGED <<filename, handles, text, urls, exc, steps, invocations, sink>>

ExtractOff ==
    /\ xs = <<>>
    /\ spans = <<>>
    /\ out = <<>>
    /\ again = <<>>
    /\ xpc = "off"

Init == CmdIdle /\ ExtractOff

\* The logger accepts every call.
Next ==
    \/ \E p \in Paths : Invoke(p) /\ UNCHANGED extVars
    \/ Open /\ UNCHANGED extVars
    \/ Read /\ UNCHANGED extVars
    \/ WithExit /\ UNCHANGED extVars
    \/ Findall /\ UNCHANGED extVars
    \/ LogInfo /\ UNCHANGED extVars
    \/ Except /\ UNCHANGED extVars
    \/ Return /\ UNCHANGED extVars

Spec == Init /\ [][Next]_vars

\* The logger may raise on any call.
NextSink ==
    \/ \E p \in Paths : Invoke(p) /\ UNCHANGED extVars
    \/ Open /\ UNCHANGED extVars
    \/ Read /\ UNCHANGED extVars
    \/ WithExit /\ UNCHANGED extVars
    \/ Findall /\ UNCHANGED extVars
    \/ LogInfo /\ UNCHANGED extVars
    \/ LogInfoRaises /\ UNCHANGED extVars
    \/ Except /\ UNCHANGED extVars
    \/ ExceptLogRaises /\ UNCHANGED extVars
    \/ Return /\ UNCHANGED extVars

SpecSink == Init /\ [][NextSink]_vars

-----------------------------------------------------------------------------
(* Vocabulary of the properties *)

PrefixHttp == <<"h", "t", "t", "p", ":", "/", "/">>
PrefixHttps == <<"h", "t", "t", "p", "s", ":", "/", "/">>

\* s[i:] starts with 'http://' or 'https://'.
PrefixAt(s, i) == LitAt(s, i, PrefixHttp) \/ LitAt(s, i, PrefixHttps)

\* The first position after the prefix that starts at i.
AfterPrefix(s, i) == IF LitAt(s, i, PrefixHttps) THEN i + 8 ELSE i + 7

\* At least one non-whitespace character follows the prefix that starts at i.
Followed(s, i) == AfterPrefix(s, i) <= Len(s) /\ ~IsSpace(s[AfterPrefix(s, i)])

\* i is the start of the string or is preceded by whitespace.
TokenBoundary(s, i) == i = 1 \/ IsSpace(s[i - 1])

\* The last position of the maximal run of non-whitespace that starts at i.
LastOfRun(s, i) ==
    CHOOSE e \in (i - 1)..Len(s) :
        /\ \A j \in i..e : ~IsSpace(s[j])
        /\ e = Len(s) \/ IsSpace(s[e + 1])

MaximalRun(s, i) == SubSeq(s, i, LastOfRun(s, i))

\* Position i lies inside a match that starts before i.
InsideEarlier(i) == \E k \in 1..Len(spans) : spans[k][1] < i /\ i <= spans[k][2]

\* The match that starts at i is the k-th one and is the run that starts at i.
MatchedAt(i, k) ==
    /\ k \in 1..Len(spans)
    /\ k \in 1..Len(out)
    /\ spans[k] = <<i, LastOfRun(xs, i)>>
    /\ out[k] = MaximalRun(xs, i)

SpansInOrder == \A k \in 1..(Len(spans) - 1) : spans[k][1] < spans[k + 1][1]

Extracted == xpc \in {"extracted", "again"}

\* The calls the logger received from invocation n.
CallsOf(n) == SelectSeq(sink, LAMBDA c : c.inv = n)

\* Invocation n has left the function.
Finished(n) == n < invocations \/ (n = invocations /\ pc = "idle")

StepDone(name) == \E k \in 1..Len(steps) : steps[k] = name

-----------------------------------------------------------------------------
(* Properties of the extraction (SpecExtract) *)

\* C4, as claimed: every 'http://' or 'https://' at a token boundary puts the
\* maximal non-whitespace run that starts there into the output, in order of
\* position, even when nothing but whitespace or the end follows the prefix.
C4_EveryBoundaryPrefixMatched ==
    Extracted =>
        /\ \A i \in 1..Len(xs) :
               (PrefixAt(xs, i) /\ TokenBoundary(xs, i))
                   => \E k \in 1..Len(spans) : MatchedAt(i, k)
        /\ SpansInOrder

\* C4, amended: every 'http://' or 'https://' at a token boundary that is
\* followed by at least one non-whitespace character puts the maximal
\* non-whitespace run that starts there into the output, in order of position.
C4_FollowedBoundaryPrefixMatched ==
    Extracted =>
        /\ \A i \in 1..Len(xs) :
               (PrefixAt(xs, i) /\ TokenBoundary(xs, i) /\ Followed(xs, i))
                   => \E k \in 1..Len(spans) : MatchedAt(i, k)
        /\ SpansInOrder

\* Two prefixes at token boundaries, the second after whitespace, both followed
\* and both matched.
C4_Witness ==
    /\ Extracted
    /\ \E i \in 2..Len(xs) :
           /\ PrefixAt(xs, 1) /\ Followed(xs, 1) /\ MatchedAt(1, 1)
           /\ PrefixAt(xs, i) /\ TokenBoundary(xs, i) /\ Followed(xs, i)
           /\ MatchedAt(i, 2)

\* C5: extracting from the space-joined output yields the output again, same
\* elements in the same order with the same multiplicity.
C5_Idempotent == xpc = "again" => again = out

\* Two different URLs were extracted, joined and extracted again.
C5_Witness ==
    /\ xpc = "again"
    /\ Len(out) = 2
    /\ out[1] # out[2]
    /\ Len(again) = 2

\* C6: the output lists the matches in the order of their start positions,
\* the matches do not overlap, and a URL matched k times is listed k times.
C6_OrderedDisjointNoDedup ==
    Extracted =>
        /\ Len(out) = Len(spans)
        /\ \A k \in 1..Len(spans) :
               /\ 1 <= spans[k][1]
               /\ spans[k][1] <= spans[k][2]
               /\ spans[k][2] <= Len(xs)
               /\ k \in 1..Len(out)
               /\ out[k] = SubSeq(xs, spans[k][1], spans[k][2])
        /\ \A k \in 1..(Len(spans) - 1) : spans[k][2] < spans[k + 1][1]
        /\ \A u \in {out[k] : k \in 1..Len(out)} :
               Cardinality({k \in 1..Len(out) : out[k] = u})
                   = Cardinality({k \in 1..Len(spans) :
                                     SubSeq(xs, spans[k][1], spans[k][2]) = u})

\* The same URL matched twice, both occurrences in the output.
C6_Witness ==
    /\ Extracted
    /\ Len(spans) = 2
    /\ Len(out) = 2
    /\ out[1] = out[2]

\* C8: every output element is a substring of the input that begins with
\* 'http://' or 'https://', has a character after the '://', holds no
\* whitespace, and is followed in the input by whitespace or the end.
C8_ElementShape ==
    Extracted =>
        \A k \in 1..Len(out) :
            /\ k \in 1..Len(spans)
            /\ out[k] = SubSeq(xs, spans[k][1], spans[k][2])
            /\ PrefixAt(out[k], 1)
            /\ AfterPrefix(out[k], 1) <= Len(out[k])
            /\ \A j \in 1..Len(out[k]) : ~IsSpace(out[k][j])
            /\ spans[k][2] = Len(xs) \/ IsSpace(xs[spans[k][2] + 1])

\* An element that ends in ')' and is followed by whitespace in the input.
C8_Witness ==
    /\ Extracted
    /\ \E k \in 1..Len(out) :
           /\ out[k][Len(out[k])] = ")"
           /\ spans[k][2] < Len(xs)
           /\ IsSpace(xs[spans[k][2] + 1])

\* C9: a prefix preceded by a non-whitespace character, followed by at least
\* one non-whitespace character and outside every earlier match starts a match
\* of its own; a prefix inside an earlier match starts none.
C9_MatchInsideToken ==
    Extracted =>
        \A i \in 2..Len(xs) :
            /\ (PrefixAt(xs, i) /\ ~IsSpace(xs[i - 1]) /\ Followed(xs, i)
                    /\ ~InsideEarlier(i))
                   => \E k \in 1..Len(spans) : MatchedAt(i, k)
            /\ (PrefixAt(xs, i) /\ InsideEarlier(i))
                   => \A k \in 1..Len(spans) : spans[k][1] # i

\* 'ahttp://https://a': the match starts inside the token, and the prefix
\* inside that match starts none.
C9_Witness ==
    /\ Extracted
    /\ xs = <<"a">> \o PrefixHttp \o PrefixHttps \o <<"a">>
    /\ out = << PrefixHttp \o PrefixHttps \o <<"a">> >>

-----------------------------------------------------------------------------
(* Properties of the command with a logger that accepts every call (Spec) *)

\* C1: every invocation that has left the function has delivered exactly one
\* log event, an INFO or an ERROR event, and no invocation delivers more than
\* one; after n invocations the logger holds n events.
C1_ExactlyOneEvent ==
    /\ \A n \in 1..invocations :
           /\ Len(CallsOf(n)) <= 1
           /\ Finished(n) =>
                  /\ Len(CallsOf(n)) = 1
                  /\ CallsOf(n)[1].event.level \in {"INFO", "ERROR"}
                  /\ ~CallsOf(n)[1].raised
    /\ pc = "idle" => Len(sink) = invocations

\* Two invocations have returned, one with an INFO and one with an ERROR event.
C1_Witness ==
    /\ pc = "idle"
    /\ invocations = 2
    /\ Len(sink) = 2
    /\ sink[1].event.level = "INFO"
    /\ sink[2].event.level = "ERROR"

C3_InfoReport ==
    (pc \in {"return", "idle"} /\ exc = "none" /\ invocations > 0) =>
        /\ Len(CallsOf(invocations)) = 1
        /\ LET ev == CallsOf(invocations)[1].event
           IN  /\ ev.level = "INFO"
               /\ ev.path = filename
               /\ ev.kind = "Extracted" <=> Len(urls) >= 1
               /\ ev.kind = "NoURLs" <=> Len(urls) = 0
               /\ ev.kind = "Extracted" => ev.urls = urls
               /\ text = <<>> => (urls = <<>> /\ ev.kind = "NoURLs")
        /\ text = <<>> =>
               \A k \in 1..Len(sink) :
                   sink[k].inv = invocations => sink[k].event.level # "ERROR"

\* An empty file was read and reported.
C3_Witness ==
    /\ pc = "idle"
    /\ exc = "none"
    /\ StepDone("read")
    /\ text = <<>>
    /\ sink[Len(sink)].event = NoUrlsEvent(filename)

\* C7: at most one handle is open at any time, and none is open before the
\* open, when the extraction runs, when a log event is emitted, in the except
\* clause, or once the command has left the function.
C7_HandleReleased ==
    /\ handles \in {0, 1}
    /\ pc \in {"idle", "open", "findall", "log", "except", "return"} => handles = 0
    /\ handles = 1 => pc \in {"read", "exit"}

\* The read failed and the except clause runs with the handle closed.
C7_Witness ==
    /\ pc = "except"
    /\ exc \in ReadErrors
    /\ steps = <<"open", "read", "close">>
    /\ handles = 0

-----------------------------------------------------------------------------
(* Properties of the command with a logger that may raise (SpecSink) *)

\* C10: when the INFO call of an invocation raises, the except clause catches
\* the exception and the invocation makes exactly one more call, an ERROR call
\* for the same path: two calls in that invocation.
C10_InfoFailureLogsError ==
    \A n \in 1..invocations :
        (/\ CallsOf(n) # <<>>
         /\ CallsOf(n)[1].event.level = "INFO"
         /\ CallsOf(n)[1].raised
         /\ n = invocations => pc # "except")
            => /\ Len(CallsOf(n)) = 2
               /\ CallsOf(n)[2].event.level = "ERROR"
               /\ CallsOf(n)[2].event.path = CallsOf(n)[1].event.path
               /\ CallsOf(n)[2].event.cause = "LoggerError"

\* The INFO call raised, the ERROR call followed and the command returned.
C10_Witness ==
    /\ pc = "idle"
    /\ result = "returned"
    /\ Len(CallsOf(invocations)) = 2
    /\ CallsOf(invocations)[1].event.level = "INFO"
    /\ CallsOf(invocations)[1].raised
    /\ CallsOf(invocations)[2].event.level = "ERROR"

====
